---- MODULE Spec2Model ----
(***************************************************************************)
(* book-rag: chunking, ingestion, deletion and querying of books kept in   *)
(* a tag-addressed vector store (src/src/rag.py, src/src/db.py,            *)
(* src/src/config.py).                                                     *)
(*                                                                         *)
(* Texts are sequences of one-character strings.  A chunk record id        *)
(* "{book_id}_chunk_{i}" is the pair <<book_id, i>>: the formatting is     *)
(* injective in (book_id, i) because i is printed in decimal digits after  *)
(* the last "_chunk_".                                                     *)
(***************************************************************************)
EXTENDS Integers, Sequences, FiniteSets, TLC

VARIABLES
    settings,   \* config.settings: chunk_size, chunk_overlap, llm_provider, google_api_key
    validated,  \* outcome of Settings.validate(): "unchecked", "ok", "ConfigError"
    chroma,     \* behaviour of the installed ChromaDB build on empty / duplicate add
    store,      \* the collection: a set of records [id, text, book, title]
    call,       \* per caller: the ingest_book / delete_book / query_books call in progress
    hist,       \* per book_id: the last completed ingest_book / delete_book (history)
    cpc,        \* chunk_text run on its own: "call", "loop", "done"
    ctext,      \* chunk_text: argument text
    start,      \* chunk_text: local start
    chunks,     \* chunk_text: local chunks
    visited,    \* history: the values of start at which the loop body ran
    emitAt      \* history: for each element of chunks, the start it was cut at

vars == <<settings, validated, chroma, store, call, hist,
          cpc, ctext, start, chunks, visited, emitAt>>

chunkVars == <<cpc, ctext, start, chunks, visited, emitAt>>
storeVars == <<chroma, store, call, hist>>

----------------------------------------------------------------------------
(* Bounds of the model *)

MaxLen  == 3    \* longest enumerated text given to chunk_text on its own
MaxSize == 3    \* largest enumerated chunk_size / chunk_overlap
MaxLoop == 6    \* cap on loop iterations of a chunk_text run that cannot end

----------------------------------------------------------------------------
(* Python helpers *)

Min(a, b) == IF a < b THEN a ELSE b
Max(a, b) == IF a > b THEN a ELSE b

\* str.strip() with no argument removes these (those that occur in the model)
Whitespace == {" ", "\n", "\t"}

\* index normalisation of a slice bound: negative counts from the end, then clamp
SliceIndex(i, n) == IF i < 0 THEN Max(i + n, 0) ELSE Min(i, n)

\* text[lo:hi]
Slice(t, lo, hi) == SubSeq(t, SliceIndex(lo, Len(t)) + 1, SliceIndex(hi, Len(t)))

RECURSIVE LStrip(_)
LStrip(s) == IF s = <<>> THEN <<>>
             ELSE IF Head(s) \in Whitespace THEN LStrip(Tail(s)) ELSE s

RECURSIVE RStrip(_)
RStrip(s) == IF s = <<>> THEN <<>>
             ELSE IF s[Len(s)] \in Whitespace THEN RStrip(SubSeq(s, 1, Len(s) - 1)) ELSE s

\* str.strip()
Strip(s) == RStrip(LStrip(s))

\* s.find(m): 0-based index of the first occurrence of m in s, or -1
Find(s, m) ==
    LET hits == {i \in 0..(Len(s) - Len(m)) : SubSeq(s, i + 1, i + Len(m)) = m}
    IN  IF hits = {} THEN -1 ELSE CHOOSE i \in hits : \A j \in hits : i <= j

----------------------------------------------------------------------------
(* chunk_text: src/src/rag.py 13-39 (src/main.py 21-31 is the same loop) *)

\* a sign slip in the advance: the overlap added instead of subtracted
ChunkStep_added(cfg) == cfg.chunk_size + cfg.chunk_overlap

\* the step the cursor advances by
ChunkStep(cfg) == cfg.chunk_size - cfg.chunk_overlap

\* the chunk appended untrimmed
ChunkAt_untrimmed(t, s, cfg) == Slice(t, s, s + cfg.chunk_size)

\* the chunk cut at cursor s, before the emptiness test
ChunkAt(t, s, cfg) == Strip(Slice(t, s, s + cfg.chunk_size))

\* chunks after the loop body ran at cursor s
ChunkAppend(cs, t, s, cfg) ==
    IF ChunkAt(t, s, cfg) # <<>> THEN Append(cs, ChunkAt(t, s, cfg)) ELSE cs

\* the whole loop from cursor s on; defined when the loop ends
RECURSIVE ChunkFrom(_, _, _, _)
ChunkFrom(t, s, cs, cfg) ==
    IF s < Len(t)
    THEN ChunkFrom(t, s + ChunkStep(cfg), ChunkAppend(cs, t, s, cfg), cfg)
    ELSE cs

\* a call of chunk_text that never returns: the cursor does not advance
ChunkHangs(t, cfg) == Len(t) > 0 /\ ChunkStep(cfg) <= 0

chunk_text(t, cfg) == ChunkFrom(t, 0, <<>>, cfg)

----------------------------------------------------------------------------
(* clean_gutenberg_text: src/src/rag.py 42-53 *)

StartMarker == <<"*","*","*"," ","S","T","A","R","T"," ","O","F">>
EndMarker   == <<"*","*","*"," ","E","N","D"," ","O","F">>
Fence       == <<"*","*","*">>

Contains(s, m) == Find(s, m) # -1

\* s.split(m)[0]
BeforeFirst(s, m) == IF Contains(s, m) THEN SubSeq(s, 1, Find(s, m)) ELSE s

\* the text after the first occurrence of m (m occurs in s)
AfterFirst(s, m) == SubSeq(s, Find(s, m) + Len(m) + 1, Len(s))

\* s.split(m)[1], m occurring in s: between the first and the second occurrence
SplitSecond(s, m) == BeforeFirst(AfterFirst(s, m), m)

\* line 50 raises IndexError: no "***" closes the start marker's line
CleanRaises(t) == Contains(t, StartMarker) /\ ~Contains(SplitSecond(t, StartMarker), Fence)

CleanStart(t) ==
    IF Contains(t, StartMarker) THEN AfterFirst(SplitSecond(t, StartMarker), Fence) ELSE t

clean_gutenberg_text(t) == BeforeFirst(CleanStart(t), EndMarker)

----------------------------------------------------------------------------
(* The collection: src/src/db.py *)

NoBook  == ""     \* book_id None: no filter
NoTitle == ""     \* title None

BookRecords(s, b) == {r \in s : r.book = b}

\* a delete that ignores its where clause
delete_where_all(s, b) == {}

\* a delete that removes nothing
delete_where_none(s, b) == s

\* collection.delete(where={"book": book_id}): db.py 55-56
delete_where(s, b) == {r \in s : r.book # b}

\* title or book_id: rag.py 97
TitleTag(title, b) == IF title # NoTitle THEN title ELSE b

\* the records add_chunks builds: db.py 77-80
ChunkRecords(cs, b, title) ==
    {[id |-> <<b, i - 1>>, text |-> cs[i], book |-> b, title |-> title] : i \in 1..Len(cs)}

Ids(s) == {r.id : r \in s}

\* collection.add raises: an empty batch, or an id already present, on a build that rejects it
AddRaises(s, recs, build) ==
    \/ recs = {} /\ build.empty_add_raises
    \/ Ids(recs) \cap Ids(s) # {} /\ build.duplicate_add_raises

\* an add that overwrites the records whose id is present (an upsert)
AddRecords_upsert(s, recs) == {r \in s : r.id \notin Ids(recs)} \cup recs

\* collection.add when it does not raise: records whose id is present are skipped
AddRecords(s, recs) == s \cup {r \in recs : r.id \notin Ids(s)}

\* a search that ignores its where clause
Matching_unfiltered(s, b) == s

\* the records that take part in a search: db.py 106-107
Matching(s, b) == IF b # NoBook THEN BookRecords(s, b) ELSE s

\* a query returns at most n_results records: db.py 102-109
ResultCount(s, n, b) == Min(n, Cardinality(Matching(s, b)))

\* collection.query: the n nearest matching records, in the similarity order of
\* the embedding model, which the program does not determine: any order
SearchResults(s, n, b) ==
    {q \in [1..ResultCount(s, n, b) -> Matching(s, b)] :
        \A i, j \in 1..ResultCount(s, n, b) : i # j => q[i] # q[j]}

----------------------------------------------------------------------------
(* query_books helpers: src/src/rag.py 123-147 *)

\* the test is skipped
StoreIsEmpty_skipped(s) == FALSE

\* collection.count() == 0: rag.py 124
StoreIsEmpty(s) == Cardinality(s) = 0

Separator == <<"\n","\n","-","-","-","\n","\n">>

\* "\n\n---\n\n".join(contexts): rag.py 136
RECURSIVE Join(_)
Join(ctxs) ==
    IF ctxs = <<>> THEN <<>>
    ELSE IF Len(ctxs) = 1 THEN ctxs[1]
    ELSE ctxs[1] \o Separator \o Join(Tail(ctxs))

\* rag.py 142-145
Sources(results) ==
    [i \in 1..Len(results) |-> [book |-> results[i].book, text |-> Slice(results[i].text, 0, 200)]]

----------------------------------------------------------------------------
(* Settings: src/src/config.py 33-66 *)

\* LLM_PROVIDER / GOOGLE_API_KEY environments: each outcome of Settings.validate
ProviderEnvs == {<<"gemini", "">>, <<"gemini", "key">>, <<"ollama", "">>, <<"other", "">>}

SettingsOf(size, overlap, env) ==
    [chunk_size |-> size, chunk_overlap |-> overlap,
     llm_provider |-> env[1], google_api_key |-> env[2]]

ValidateRaises(cfg) ==
    \/ cfg.llm_provider = "gemini" /\ cfg.google_api_key = ""
    \/ cfg.llm_provider \notin {"gemini", "ollama"}

\* web.py 56-60: validate on startup; an error stops the app
Validate ==
    /\ validated = "unchecked"
    /\ validated' = IF ValidateRaises(settings) THEN "ConfigError" ELSE "ok"
    /\ UNCHANGED <<settings, storeVars, chunkVars>>

----------------------------------------------------------------------------
(* Callers, books and the calls in progress *)

\* the texts given to ingest_book
TextAB      == <<"a", "b">>
TextA_B     == <<"a", " ", "b">>
TextBlank   == <<" ">>
\* "*** START OF***ba*** END OF": cleans to "ba"
TextFenced  == StartMarker \o Fence \o <<"b", "a">> \o EndMarker
\* "*** START OFa": the start marker's line is never closed
TextUnfenced == StartMarker \o <<"a">>

Texts  == {TextAB, TextA_B, TextBlank, TextFenced, TextUnfenced}

\* rag.py 81, once per input text: whether cleaning raises, and the cleaned text
Cleaning ==
    [t \in Texts |->
        [raises |-> CleanRaises(t),
         text   |-> IF CleanRaises(t) THEN <<>> ELSE clean_gutenberg_text(t)]]

\* progress_callback of ingest_book: none given, one that returns, one that may raise
NoCallback == "none"
Callbacks  == {NoCallback, "reports", "faulty"}

Procs   == {"p1", "p2"}
BookIds == {"A", "B"}

\* a caller with no call in progress, and the locals of a call.  History kept with
\* the outcome: again (the ingest_book repeated the book's last one: same text and
\* title), absent (the delete_book found no record of the book); with the search
\* results: during (the search ran between the delete and the add of another
\* caller's ingest_book of the same book_id)
Idle ==
    [op |-> "idle", pc |-> "idle", book_id |-> NoBook, text |-> <<>>, title |-> NoTitle,
     chunks |-> <<>>, i |-> 0, n_results |-> 0, results |-> <<>>,
     context |-> <<>>, count |-> -1, sources |-> <<>>, answered |-> FALSE,
     err |-> "none", providerCalls |-> 0, again |-> FALSE, absent |-> FALSE,
     progress_callback |-> NoCallback, during |-> FALSE]

NoCalls == [p \in Procs |-> Idle]

\* history of a book_id: its last ingest_book that returned (text, title, the count
\* returned, the book's records at the return), unless a delete_book returned
\* later; failed: an ingest_book of the book has failed after its delete since then
Never ==
    [state |-> "never", text |-> <<>>, title |-> NoTitle, count |-> -1, recs |-> {},
     failed |-> FALSE]

NoHist == [b \in BookIds |-> Never]

Free(p) == call[p].pc \in {"idle", "done"}

\* a call that raised e
Failed(c, e) == [c EXCEPT !.pc = "done", !.err = e]

\* a finished call: its locals are gone, its outcome is with the caller
Outcome(c) ==
    [Idle EXCEPT !.op = c.op, !.pc = "done", !.book_id = c.book_id, !.err = c.err,
                 !.count = c.count, !.n_results = c.n_results, !.sources = c.sources,
                 !.answered = c.answered, !.providerCalls = c.providerCalls,
                 !.again = c.again, !.absent = c.absent]

----------------------------------------------------------------------------
(* ingest_book: src/src/rag.py 56-99 *)

\* the loop over the chunks leaves the store alone until add_chunks: rag.py 88-94
\* (the variant that adds each chunk as soon as it is embedded)
StoreAfterEmbed_each(s, c) ==
    AddRecords(s, {r \in ChunkRecords(c.chunks, c.book_id, TitleTag(c.title, c.book_id)) :
                      r.id = <<c.book_id, c.i>>})

StoreAfterEmbed(s, c) == s

\* rag.py 81-85: clean, chunk, delete the book's records
IngestBegin(p, t, b, title, cb) ==
    /\ Free(p)
    /\ LET c == [Idle EXCEPT !.op = "ingest", !.book_id = b, !.text = t, !.title = title,
                             !.progress_callback = cb]
       IN  IF Cleaning[t].raises
           THEN /\ call' = [call EXCEPT ![p] = Outcome(Failed(c, "IndexError"))]
                /\ store' = store
           ELSE IF ChunkHangs(Cleaning[t].text, settings)
           THEN /\ call' = [call EXCEPT ![p] = [c EXCEPT !.pc = "hung"]]
                /\ store' = store
           ELSE /\ call' = [call EXCEPT ![p] =
                               [c EXCEPT !.pc = "embed",
                                         !.chunks = chunk_text(Cleaning[t].text, settings)]]
                /\ store' = delete_where(store, b)
    /\ UNCHANGED <<settings, validated, chroma, hist, chunkVars>>

\* rag.py 89-94: get_embedding(chunk) returns, and so does the callback if there is one
IngestEmbed(p) ==
    /\ call[p].op = "ingest" /\ call[p].pc = "embed"
    /\ call[p].i < Len(call[p].chunks)
    /\ call' = [call EXCEPT ![p].i = @ + 1, ![p].providerCalls = @ + 1]
    /\ store' = StoreAfterEmbed(store, call[p])
    /\ UNCHANGED <<settings, validated, chroma, hist, chunkVars>>

\* rag.py 90: get_embedding(chunk) raises; nothing catches it
IngestEmbedFails(p) ==
    /\ call[p].op = "ingest" /\ call[p].pc = "embed"
    /\ call[p].i < Len(call[p].chunks)
    /\ call' = [call EXCEPT ![p] = Outcome(Failed([@ EXCEPT !.providerCalls = @ + 1], "ProviderError"))]
    /\ hist' = [hist EXCEPT ![call[p].book_id].failed = (hist[call[p].book_id].state = "ingested")]
    /\ UNCHANGED <<settings, validated, chroma, store, chunkVars>>

\* rag.py 90-94: get_embedding(chunk) returns, then progress_callback(i + 1, len(chunks))
\* raises; the call is inside no try block, so the exception leaves ingest_book
IngestCallbackFails(p) ==
    /\ call[p].op = "ingest" /\ call[p].pc = "embed"
    /\ call[p].i < Len(call[p].chunks)
    /\ call[p].progress_callback = "faulty"
    /\ call' = [call EXCEPT ![p] = Outcome(Failed([@ EXCEPT !.providerCalls = @ + 1], "CallbackError"))]
    /\ hist' = [hist EXCEPT ![call[p].book_id].failed = (hist[call[p].book_id].state = "ingested")]
    /\ UNCHANGED <<settings, validated, chroma, store, chunkVars>>

\* rag.py 97-99: add_chunks, return len(chunks)
IngestAdd(p) ==
    /\ call[p].op = "ingest" /\ call[p].pc = "embed"
    /\ call[p].i = Len(call[p].chunks)
    /\ LET c    == call[p]
           b    == c.book_id
           recs == ChunkRecords(c.chunks, b, TitleTag(c.title, b))
       IN  IF AddRaises(store, recs, chroma)
           THEN /\ call' = [call EXCEPT ![p] = Outcome(Failed(c, "StoreError"))]
                /\ store' = store
                /\ hist' = [hist EXCEPT ![b].failed = (hist[b].state = "ingested")]
           ELSE /\ call' = [call EXCEPT ![p] =
                               Outcome([c EXCEPT !.count = Len(c.chunks),
                                                 !.again = /\ hist[b].state = "ingested"
                                                           /\ ~hist[b].failed
                                                           /\ hist[b].text = c.text
                                                           /\ hist[b].title = c.title])]
                /\ store' = AddRecords(store, recs)
                /\ hist' = [hist EXCEPT ![b] =
                               [Never EXCEPT
                                   !.state = "ingested", !.text = c.text, !.title = c.title,
                                   !.count = Len(c.chunks), !.recs = BookRecords(store', b)]]
    /\ UNCHANGED <<settings, validated, chroma, chunkVars>>

----------------------------------------------------------------------------
(* delete_book: src/src/db.py 48-56 *)

DeleteBook(p, b) ==
    /\ Free(p)
    /\ call' = [call EXCEPT ![p] = [Idle EXCEPT !.op = "delete", !.pc = "done", !.book_id = b,
                                                !.absent = (BookRecords(store, b) = {})]]
    /\ store' = delete_where(store, b)
    /\ hist' = [hist EXCEPT ![b] = [Never EXCEPT !.state = "deleted"]]
    /\ UNCHANGED <<settings, validated, chroma, chunkVars>>

----------------------------------------------------------------------------
(* query_books: src/src/rag.py 102-147 *)

\* rag.py 123-125
QueryBegin(p, b, n) ==
    /\ Free(p)
    /\ LET c == [Idle EXCEPT !.op = "query", !.book_id = b, !.n_results = n]
       IN  call' = [call EXCEPT ![p] =
                       IF StoreIsEmpty(store) THEN Outcome(Failed(c, "EmptyKnowledgeBase"))
                       ELSE [c EXCEPT !.pc = "q_embed"]]
    /\ UNCHANGED <<settings, validated, chroma, store, hist, chunkVars>>

\* rag.py 128: get_embedding(question) returns
QueryEmbed(p) ==
    /\ call[p].op = "query" /\ call[p].pc = "q_embed"
    /\ call' = [call EXCEPT ![p].pc = "q_search", ![p].providerCalls = @ + 1]
    /\ UNCHANGED <<settings, validated, chroma, store, hist, chunkVars>>

\* rag.py 128: get_embedding(question) raises
QueryEmbedFails(p) ==
    /\ call[p].op = "query" /\ call[p].pc = "q_embed"
    /\ call' = [call EXCEPT ![p] = Outcome(Failed([@ EXCEPT !.providerCalls = @ + 1], "ProviderError"))]
    /\ UNCHANGED <<settings, validated, chroma, store, hist, chunkVars>>

\* a call of ingest_book(.., b, ..) is between its delete_book and its add_chunks
MidIngest(b) ==
    \E q \in Procs : call[q].op = "ingest" /\ call[q].pc = "embed" /\ call[q].book_id = b

\* rag.py 131-136: search, then join the contexts
QuerySearch(p) ==
    /\ call[p].op = "query" /\ call[p].pc = "q_search"
    /\ \E q \in SearchResults(store, call[p].n_results, call[p].book_id) :
          call' = [call EXCEPT ![p].pc = "q_chat", ![p].results = q,
                               ![p].context = Join([i \in 1..Len(q) |-> q[i].text]),
                               ![p].during = MidIngest(call[p].book_id)]
    /\ UNCHANGED <<settings, validated, chroma, store, hist, chunkVars>>

\* rag.py 139-147: chat returns, build the sources
QueryChat(p) ==
    /\ call[p].op = "query" /\ call[p].pc = "q_chat"
    /\ call' = [call EXCEPT ![p] = Outcome([@ EXCEPT !.providerCalls = @ + 1, !.answered = TRUE,
                                                      !.sources = Sources(call[p].results)])]
    /\ UNCHANGED <<settings, validated, chroma, store, hist, chunkVars>>

\* rag.py 139: chat raises
QueryChatFails(p) ==
    /\ call[p].op = "query" /\ call[p].pc = "q_chat"
    /\ call' = [call EXCEPT ![p] = Outcome(Failed([@ EXCEPT !.providerCalls = @ + 1], "ProviderError"))]
    /\ UNCHANGED <<settings, validated, chroma, store, hist, chunkVars>>

----------------------------------------------------------------------------
(* Inputs and specifications of the store operations *)

Titles == {NoTitle, "T"}
NResults == {1, 2}

\* CHUNK_SIZE / CHUNK_OVERLAP environments of the store specifications
StoreSettings ==
    {SettingsOf(2, 1, <<"ollama", "">>),
     SettingsOf(1, 1, <<"ollama", "">>)}

Builds == [empty_add_raises : BOOLEAN, duplicate_add_raises : BOOLEAN]

StoreInit(cfgs, builds) ==
    /\ settings \in cfgs
    /\ validated = "unchecked"
    /\ chroma \in builds
    /\ store = {}
    /\ call = NoCalls
    /\ hist = NoHist
    /\ cpc = "idle"
    /\ ctext = <<>>
    /\ start = 0
    /\ chunks = <<>>
    /\ visited = <<>>
    /\ emitAt = <<>>

IngestSteps(p, texts, titles) ==
    \/ \E t \in texts, b \in BookIds, title \in titles : IngestBegin(p, t, b, title, NoCallback)
    \/ IngestEmbed(p)
    \/ IngestEmbedFails(p)
    \/ IngestAdd(p)

DeleteSteps(p) == \E b \in BookIds : DeleteBook(p, b)

QuerySteps(p, ns) ==
    \/ \E b \in BookIds \cup {NoBook}, n \in ns : QueryBegin(p, b, n)
    \/ QueryEmbed(p)
    \/ QueryEmbedFails(p)
    \/ QuerySearch(p)
    \/ QueryChat(p)
    \/ QueryChatFails(p)

\* calls run to completion one at a time: a single caller
SeqNext ==
    \/ IngestSteps("p1", Texts, Titles)
    \/ DeleteSteps("p1")
    \/ QuerySteps("p1", NResults)

SeqSpec == StoreInit(StoreSettings, Builds) /\ [][SeqNext]_vars

\* one caller whose ingest_book calls are given a progress callback or none
CallbackNext ==
    \/ \E t \in Texts, b \in BookIds, cb \in Callbacks : IngestBegin("p1", t, b, NoTitle, cb)
    \/ IngestEmbed("p1")
    \/ IngestEmbedFails("p1")
    \/ IngestCallbackFails("p1")
    \/ IngestAdd("p1")
    \/ DeleteSteps("p1")

CallbackSpec == StoreInit(StoreSettings, Builds) /\ [][CallbackNext]_vars

\* one caller ingests and re-ingests, the other queries while it does
RaceNext ==
    \/ IngestSteps("p1", {TextAB, TextA_B}, {NoTitle})
    \/ QuerySteps("p2", NResults)

RaceSpec ==
    /\ StoreInit({SettingsOf(2, 0, <<"ollama", "">>)}, {b \in Builds : b.empty_add_raises})
    /\ [][RaceNext]_vars

\* two callers whose calls interleave, on inputs that never give an empty batch.
\* Both ingest; one of them also deletes, the other also queries.
Next ==
    \/ IngestSteps("p1", {TextAB, TextA_B}, {NoTitle})
    \/ DeleteSteps("p1")
    \/ IngestSteps("p2", {TextAB, TextA_B}, {NoTitle})
    \/ QuerySteps("p2", {1})

Spec ==
    /\ StoreInit({SettingsOf(2, 0, <<"ollama", "">>)}, {b \in Builds : b.empty_add_raises})
    /\ [][Next]_vars

----------------------------------------------------------------------------
(* chunk_text run step by step on enumerated inputs *)

Chars == {"a", "b", " "}

RECURSIVE SeqsUpTo(_)
SeqsUpTo(n) ==
    IF n = 0 THEN {<<>>}
    ELSE LET shorter == SeqsUpTo(n - 1)
         IN  shorter \cup {Append(s, c) : s \in {x \in shorter : Len(x) = n - 1}, c \in Chars}

ChunkTexts == SeqsUpTo(MaxLen)

\* the scenario of spec section 8: "AAAA BBBB CCCC DDDD", size 10, overlap 4
ScenarioText == <<"A","A","A","A"," ","B","B","B","B"," ",
                  "C","C","C","C"," ","D","D","D","D">>

ChunkSettings ==
    {SettingsOf(size, overlap, env) : size \in 1..MaxSize, overlap \in 0..MaxSize, env \in ProviderEnvs}

ScenarioSettings ==
    [chunk_size |-> 10, chunk_overlap |-> 4, llm_provider |-> "ollama", google_api_key |-> ""]


ChunkInit ==
    /\ \/ ctext \in ChunkTexts /\ settings \in ChunkSettings
       \/ ctext = ScenarioText /\ settings = ScenarioSettings
    /\ validated = "unchecked"
    /\ cpc = "call"
    /\ start = 0
    /\ chunks = <<>>
    /\ visited = <<>>
    /\ emitAt = <<>>
    /\ chroma \in {b \in Builds : b.empty_add_raises /\ ~b.duplicate_add_raises}
    /\ store = {}
    /\ call = NoCalls
    /\ hist = NoHist

\* rag.py 27-30
ChunkEnter ==
    /\ cpc = "call"
    /\ validated # "ConfigError"
    /\ cpc' = "loop"
    /\ start' = 0
    /\ chunks' = <<>>
    /\ UNCHANGED <<settings, validated, storeVars, ctext, visited, emitAt>>

\* rag.py 32-37: one pass through the loop body
ChunkIterate ==
    /\ cpc = "loop"
    /\ start < Len(ctext)
    /\ Len(visited) < MaxLoop
    /\ chunks' = ChunkAppend(chunks, ctext, start, settings)
    /\ start' = start + ChunkStep(settings)
    /\ visited' = Append(visited, start)
    /\ emitAt' = IF ChunkAt(ctext, start, settings) # <<>> THEN Append(emitAt, start) ELSE emitAt
    /\ UNCHANGED <<settings, validated, storeVars, cpc, ctext>>

\* rag.py 32, 39: the loop test fails, return chunks
ChunkReturn ==
    /\ cpc = "loop"
    /\ ~(start < Len(ctext))
    /\ cpc' = "done"
    /\ UNCHANGED <<settings, validated, storeVars, ctext, start, chunks, visited, emitAt>>

ChunkNext == Validate \/ ChunkEnter \/ ChunkIterate \/ ChunkReturn

ChunkSpec == ChunkInit /\ [][ChunkNext]_vars

\* a running call of chunk_text keeps executing
ChunkFairSpec == ChunkSpec /\ WF_vars(ChunkIterate) /\ WF_vars(ChunkReturn)

----------------------------------------------------------------------------
(* Properties of chunk_text *)

ValidChunking == settings.chunk_size > settings.chunk_overlap /\ settings.chunk_overlap >= 0

\* C5: with chunk_overlap >= chunk_size and a non-empty text the configuration is
\* rejected (by Settings.validate or by the chunker) before the loop body ever runs,
\* so the chunker never iterates without advancing its cursor.
C5_FailsFastNeverLoops ==
    (settings.chunk_overlap >= settings.chunk_size /\ ctext # <<>>)
        => \A i \in 1..Len(visited) : start > visited[i]

\* C6 as stated: the scenario text with size 10, overlap 4 visits cursors 0, 6, 12
\* and returns the three chunks "AAAA BBBB", "BBBB CCCC", "CCCC DDDD" (count 3).
C6_ScenarioThreeChunks ==
    (cpc = "done" /\ ctext = ScenarioText /\ settings = ScenarioSettings)
        => /\ visited = <<0, 6, 12>>
           /\ chunks = << <<"A","A","A","A"," ","B","B","B","B">>,
                          <<"B","B","B","B"," ","C","C","C","C">>,
                          <<"C","C","C","C"," ","D","D","D","D">> >>
           /\ Len(chunks) = 3

\* C6 amended: the scenario text with size 10, overlap 4 visits cursors 0, 6, 12, 18
\* and returns the four chunks "AAAA BBBB", "BBB CCCC D", "CC DDDD", "D" (count 4).
C6_ScenarioFourChunks ==
    (cpc = "done" /\ ctext = ScenarioText /\ settings = ScenarioSettings)
        => /\ visited = <<0, 6, 12, 18>>
           /\ chunks = << <<"A","A","A","A"," ","B","B","B","B">>,
                          <<"B","B","B"," ","C","C","C","C"," ","D">>,
                          <<"C","C"," ","D","D","D","D">>,
                          <<"D">> >>
           /\ Len(chunks) = 4

C6_Witness == cpc = "done" /\ ctext = ScenarioText /\ settings = ScenarioSettings

\* 0-based positions of the span [c, c + chunk_size) that lie in the text
SpanOf(c) == {k \in 0..(Len(ctext) - 1) : c <= k /\ k < c + settings.chunk_size}

\* positions of the span that hold a non-whitespace character
InkOf(c) == {k \in SpanOf(c) : ctext[k + 1] \notin Whitespace}

Lowest(S)  == CHOOSE k \in S : \A j \in S : k <= j
Highest(S) == CHOOSE k \in S : \A j \in S : k >= j

ChunkCoverage ==
    /\ \A k \in 0..(Len(ctext) - 1) : \E i \in 1..Len(visited) : k \in SpanOf(visited[i])
    /\ Len(emitAt) = Len(chunks)
    /\ \A i \in 1..Len(visited) :
          LET c == visited[i] IN
          IF InkOf(c) = {}
          THEN \A j \in 1..Len(emitAt) : emitAt[j] # c
          ELSE \E j \in 1..Len(emitAt) :
                  /\ emitAt[j] = c
                  /\ chunks[j] = SubSeq(ctext, Lowest(InkOf(c)) + 1, Highest(InkOf(c)) + 1)
    /\ \A i, j \in 1..Len(emitAt) : i < j => emitAt[i] < emitAt[j]
    /\ \A j \in 1..Len(chunks) : chunks[j] # <<>>

\* C7: for size > overlap >= 0 the chunker terminates; when it has, every character
\* of the text lies in the span of a visited cursor, each span's characters between
\* its first and last non-whitespace character are the chunk emitted for it, chunks
\* are in increasing cursor order and none is empty.
C7_CoverageAndTermination ==
    /\ []((ValidChunking /\ cpc = "done") => ChunkCoverage)
    /\ ((ValidChunking /\ cpc = "loop") ~> (cpc = "done"))

C7_Witness ==
    /\ ValidChunking /\ cpc = "done"
    /\ Len(visited) >= 2 /\ Len(chunks) >= 1 /\ Len(chunks) < Len(visited)
    /\ settings.chunk_overlap >= 1

\* C14 as stated: for size > overlap >= 0, a text shorter than chunk_size yields
\* exactly one chunk, or zero chunks if the text trims to empty.
C14_ShortTextOneChunk ==
    (ValidChunking /\ cpc = "done" /\ Len(ctext) < settings.chunk_size)
        => Len(chunks) = (IF Strip(ctext) = <<>> THEN 0 ELSE 1)

\* C14 amended: for size > overlap >= 0, a text no longer than the step
\* chunk_size - chunk_overlap is visited at most once and yields exactly one chunk
\* (the trimmed text), or zero chunks if it trims to empty; a text shorter than
\* chunk_size is visited at ceil(len / step) cursors and yields at most that many chunks.
C14_TextWithinStepOneChunk ==
    (ValidChunking /\ cpc = "done")
        => /\ Len(ctext) <= ChunkStep(settings)
                => /\ Len(visited) <= 1
                   /\ chunks = (IF Strip(ctext) = <<>> THEN <<>> ELSE <<Strip(ctext)>>)
           /\ Len(ctext) < settings.chunk_size
                => /\ Len(visited) = (Len(ctext) + ChunkStep(settings) - 1) \div ChunkStep(settings)
                   /\ Len(chunks) <= Len(visited)

\* a short text that fits the step and one that does not have both been chunked:
\* here the one that does not, returning two chunks
C14_Witness ==
    /\ ValidChunking /\ cpc = "done"
    /\ Len(ctext) < settings.chunk_size
    /\ Len(ctext) > ChunkStep(settings)
    /\ Len(chunks) = 2

----------------------------------------------------------------------------
(* Properties of ingest_book, delete_book and query_books *)

\* the chunks of the text of the book's last ingest_book that returned
LastChunks(b) == chunk_text(Cleaning[hist[b].text].text, settings)

\* the records that ingest_book is to have written: ids 0 .. count - 1, the chunks in order
LastWritten(b) ==
    {[id |-> <<b, i>>, text |-> LastChunks(b)[i + 1], book |-> b,
      title |-> IF hist[b].title = NoTitle THEN b ELSE hist[b].title] : i \in 0..(hist[b].count - 1)}

\* C1 as stated: when no call is in progress, the records of every book_id are
\* exactly those written by its most recent ingest_book that returned (count chunks,
\* in order), or none if a delete_book came later or no ingest_book ever returned.
C1_LastSuccessfulIngest ==
    Free("p1") =>
        \A b \in BookIds :
            IF hist[b].state = "ingested"
            THEN /\ hist[b].count = Len(LastChunks(b))
                 /\ BookRecords(store, b) = LastWritten(b)
            ELSE BookRecords(store, b) = {}

\* C1 amended: ... or none if a delete_book, or an ingest_book that failed after
\* its delete step, came later.
C1_LastIngestUnlessDeletedOrFailed ==
    Free("p1") =>
        \A b \in BookIds :
            IF hist[b].state = "ingested" /\ ~hist[b].failed
            THEN /\ hist[b].count = Len(LastChunks(b))
                 /\ BookRecords(store, b) = LastWritten(b)
            ELSE BookRecords(store, b) = {}

C1_Witness ==
    /\ Free("p1")
    /\ hist["A"].state = "ingested" /\ ~hist["A"].failed /\ hist["A"].count = 2
    /\ hist["A"].text = TextFenced /\ hist["A"].title = NoTitle
    /\ hist["B"].state = "ingested" /\ hist["B"].failed

\* C2: an ingest_book that comes right after an ingest_book of the same text,
\* book_id and title that returned also returns, with the same count, and leaves
\* the book's records exactly as the first left them.
C2_ReingestIdempotent ==
    [][\A p \in Procs :
          LET b == call[p].book_id IN
          (/\ IngestAdd(p)
           /\ hist[b].state = "ingested" /\ ~hist[b].failed
           /\ hist[b].text = call[p].text /\ hist[b].title = call[p].title)
          => /\ call'[p].err = "none"
             /\ call'[p].count = hist[b].count
             /\ BookRecords(store', b) = hist[b].recs]_vars

C2_Witness ==
    /\ call["p1"].op = "ingest" /\ call["p1"].pc = "done" /\ call["p1"].book_id = "A"
    /\ call["p1"].again /\ call["p1"].count >= 2
    /\ hist["A"].state = "ingested" /\ hist["A"].title = "T"

\* a step of caller p inside ingest_book(.., a, ..) or delete_book(a)
StepOn(p, a) ==
    \/ /\ call'[p].op = "ingest" /\ call'[p].book_id = a
       /\ \E t \in Texts, title \in Titles : IngestBegin(p, t, a, title, NoCallback)
    \/ /\ call[p].op = "ingest" /\ call[p].book_id = a
       /\ (IngestEmbed(p) \/ IngestEmbedFails(p) \/ IngestAdd(p))
    \/ call'[p].op = "delete" /\ DeleteBook(p, a)

\* C3: however the callers' steps interleave, the records tagged with a book B are
\* added, removed or changed only by a step of an ingest_book or delete_book of B
\* itself, never by a step of a call on another book; and delete_book(A) leaves no
\* record of A.
C3_Isolation ==
    [][\A b \in BookIds :
          /\ BookRecords(store', b) # BookRecords(store, b) => \E p \in Procs : StepOn(p, b)
          /\ \A p \in Procs :
                (call'[p].op = "delete" /\ DeleteBook(p, b)) => BookRecords(store', b) = {}]_vars

C3_Witness ==
    /\ hist["A"].state = "deleted" /\ ~call["p1"].absent
    /\ hist["B"].state = "ingested" /\ BookRecords(store, "B") = hist["B"].recs
    /\ hist["B"].recs # {} /\ BookRecords(store, "A") = {}
    /\ call["p1"].op = "delete" /\ call["p2"].op = "ingest" /\ call["p2"].pc = "done"

\* C4: query_books called on a store of zero records ends at once with the
\* empty-knowledge-base error, having made no provider call.
C4_EmptyStoreFailsFirst ==
    [][\A p \in Procs, b \in BookIds \cup {NoBook}, n \in NResults :
          (Cardinality(store) = 0 /\ QueryBegin(p, b, n))
          => /\ call'[p].pc = "done"
             /\ call'[p].err = "EmptyKnowledgeBase"
             /\ call'[p].providerCalls = 0
             /\ ~call'[p].answered]_vars

C4_Witness ==
    /\ call["p1"].op = "query" /\ call["p1"].err = "EmptyKnowledgeBase"
    /\ store = {} /\ hist["A"].state = "deleted"

\* C8: delete_book raises nothing; for a book_id with no records it leaves the
\* store as it is; deleting again what it left changes nothing.
C8_DeleteIdempotentTotal ==
    [][\A p \in Procs, b \in BookIds :
          (call'[p].op = "delete" /\ DeleteBook(p, b))
          => /\ call'[p].pc = "done" /\ call'[p].err = "none"
             /\ BookRecords(store, b) = {} => store' = store
             /\ BookRecords(store', b) = {}
             /\ delete_where(store', b) = store']_vars

C8_Witness ==
    /\ call["p1"].op = "delete" /\ call["p1"].book_id = "A" /\ call["p1"].absent
    /\ hist["A"].state = "deleted"
    /\ BookRecords(store, "B") # {}

\* C9: with a book_id given, the search returns only records of the store tagged
\* with it, at most n_results of them, and none when no record carries it (the
\* context is then empty); the sources are those records, in the same order.
C9_TagFilter ==
    [][\A p \in Procs :
          LET b == call[p].book_id IN
          /\ (QuerySearch(p) /\ b # NoBook)
             => /\ Len(call'[p].results) <= call[p].n_results
                /\ \A i \in 1..Len(call'[p].results) :
                      call'[p].results[i] \in store /\ call'[p].results[i].book = b
                /\ (\A r \in store : r.book # b)
                      => call'[p].results = <<>> /\ call'[p].context = <<>>
          /\ (QueryChat(p) /\ b # NoBook)
             => /\ Len(call'[p].sources) = Len(call[p].results)
                /\ Len(call'[p].sources) <= call[p].n_results
                /\ \A i \in 1..Len(call[p].results) :
                      /\ call'[p].sources[i].book = b
                      /\ call'[p].sources[i].text = call[p].results[i].text]_vars

C9_Witness ==
    /\ call["p1"].op = "query" /\ call["p1"].pc = "done" /\ call["p1"].answered
    /\ call["p1"].book_id = "A" /\ call["p1"].n_results = 2
    /\ Len(call["p1"].sources) = 2
    /\ Cardinality(BookRecords(store, "A")) = 3
    /\ BookRecords(store, "B") # {}

\* the book's records before the call: those its last ingest_book left, if any
Prior(b) == IF hist[b].state = "ingested" /\ ~hist[b].failed THEN hist[b].recs ELSE {}

\* C10: when get_embedding raises during ingest_book, the call ends with the
\* provider error and no count, and the book's records are then either the
\* complete set it had before the call or none.
C10_EmbeddingFailure ==
    [][\A p \in Procs :
          LET b == call[p].book_id IN
          IngestEmbedFails(p)
          => /\ call'[p].pc = "done" /\ call'[p].err = "ProviderError" /\ call'[p].count = -1
             /\ BookRecords(store', b) \in {{}, Prior(b)}]_vars

C10_Witness ==
    /\ call["p1"].op = "ingest" /\ call["p1"].err = "ProviderError"
    /\ call["p1"].providerCalls >= 2 /\ call["p1"].book_id = "A"
    /\ hist["A"].state = "ingested" /\ hist["A"].failed /\ hist["A"].recs # {}
    /\ BookRecords(store, "A") = {}

----------------------------------------------------------------------------
(* Properties of the progress callback *)

\* C11: an exception raised by the progress callback does not abort ingest_book:
\* no ingest_book call ends with the callback's exception; the call goes on to
\* embed the remaining chunks, add all records and return the chunk count.
C11_CallbackFailureIgnored ==
    \A p \in Procs :
        (call[p].op = "ingest" /\ call[p].pc = "done") => call[p].err # "CallbackError"

----------------------------------------------------------------------------
(* Properties of interleaved calls on one book_id *)

\* the records ingest_book(t, b) is to leave: the chunks of t under ids 0 .. n - 1
CompleteSet(t, b) ==
    ChunkRecords(chunk_text(Cleaning[t].text, settings), b, TitleTag(NoTitle, b))

\* the book has records, and they are the complete chunk set of no ingested text
Mixed(s, b) ==
    /\ BookRecords(s, b) # {}
    /\ \A t \in {TextAB, TextA_B} : BookRecords(s, b) # CompleteSet(t, b)

\* C13: ingest_book calls of one book_id that interleave are unsafe.  The records of
\* a book become a set that is the complete chunk set of neither text only in the
\* add_chunks step of an ingest_book of that book which finds records of the book in
\* the store (written by the other call after this call's delete_book); the call
\* reports success with its chunk count, the records already present stay as they
\* were, and only the chunks under ids not yet present are added: versions mixed
\* under the shared ids, chunks of the reporting call lost.
C13_InterleavedIngestsMix ==
    [][\A b \in BookIds :
          (store' # store /\ ~Mixed(store, b) /\ Mixed(store', b)) =>
              \E p \in Procs :
                  /\ call[p].op = "ingest" /\ call[p].pc = "embed" /\ call[p].book_id = b
                  /\ IngestAdd(p)
                  /\ call'[p].err = "none" /\ call'[p].count = Len(call[p].chunks)
                  /\ BookRecords(store, b) # {}
                  /\ BookRecords(store, b) \subseteq BookRecords(store', b)
                  /\ \E r \in ChunkRecords(call[p].chunks, b, TitleTag(call[p].title, b)) :
                         r \notin store']_vars

\* both callers' ingest_book of "A" have returned their counts, one for each text,
\* and the records of "A" are the complete chunk set of neither
C13_Witness ==
    /\ \A p \in Procs : call[p].op = "ingest" /\ call[p].pc = "done" /\ call[p].book_id = "A"
    /\ call["p1"].err = "none" /\ call["p2"].err = "none"
    /\ call["p1"].count # call["p2"].count
    /\ Mixed(store, "A")

----------------------------------------------------------------------------
(* Properties of a query that runs while a book is re-ingested *)

\* the records the search of caller p can observe: those of its book_id
Seen(p) == BookRecords(store, call[p].book_id)

\* the version of book b in the store before a re-ingestion: its last ingest_book's
OldVersion(b) == LastWritten(b)

\* the version the ingest_book in progress is to write
NewVersion(b) ==
    UNION {ChunkRecords(call[q].chunks, b, TitleTag(call[q].title, b)) :
              q \in {r \in Procs : call[r].op = "ingest" /\ call[r].pc = "embed" /\ call[r].book_id = b}}

\* C12 as stated: when the search of a query_books runs while the book_id is being
\* re-ingested, the records of that book_id it can observe are exactly the complete
\* old version or exactly the complete new version, and the query leaves the store
\* as it is.
C12_SeesOldOrNew ==
    [][\A p \in Procs :
          LET b == call[p].book_id IN
          (/\ call[p].op = "query" /\ call[p].pc = "q_search" /\ b # NoBook
           /\ QuerySearch(p)
           /\ MidIngest(b) /\ hist[b].state = "ingested" /\ ~hist[b].failed)
          => /\ Seen(p) = OldVersion(b) \/ Seen(p) = NewVersion(b)
             /\ store' = store]_vars

\* C12 amended: when the search of a query_books runs while the book_id is being
\* re-ingested, between the re-ingestion's delete_book and its add_chunks, it
\* observes no record of that book_id (its results for the book are empty);
\* otherwise it observes exactly the complete set of the book's last finished
\* ingestion (the old version before the re-ingestion starts, the new one after it
\* returns), never a partial or mixed set.  No step of a query changes the store.
C12_SeesOldNoneOrNew ==
    [][\A p \in Procs :
          LET b == call[p].book_id IN
          /\ (call[p].op = "query" /\ call[p].pc = "q_search" /\ b # NoBook /\ QuerySearch(p))
             => /\ Seen(p) = (IF MidIngest(b) THEN {}
                              ELSE IF hist[b].state = "ingested" /\ ~hist[b].failed
                                   THEN OldVersion(b) ELSE {})
                /\ \A i \in 1..Len(call'[p].results) : call'[p].results[i] \in Seen(p)
                /\ call'[p].during = MidIngest(b)
          /\ (call[p].op = "query" /\ call'[p].op = "query" /\ call'[p] # call[p])
             => store' = store]_vars

\* the search of query_books(.., "A") has run during the re-ingestion of "A", whose
\* old version had records, and found none of them
C12_Witness ==
    /\ call["p2"].op = "query" /\ call["p2"].pc = "q_chat" /\ call["p2"].book_id = "A"
    /\ call["p2"].during /\ call["p2"].results = <<>>
    /\ call["p1"].op = "ingest" /\ call["p1"].pc = "embed" /\ call["p1"].book_id = "A"
    /\ hist["A"].state = "ingested" /\ ~hist["A"].failed /\ hist["A"].count >= 1
    /\ BookRecords(store, "B") # {}

====
